---- MODULE Spec2Model ----
(***************************************************************************)
(* A model of the DKIM verification library cfdkim: validate_header, the   *)
(* two verification loops (verify_email_with_resolver and                  *)
(* verify_email_with_key), verify_email_header, verify_signature and the   *)
(* body canonicalization of canonicalization.rs.                           *)
(*                                                                         *)
(* Text is modelled as a sequence of one-character strings, so that        *)
(* ends_with, split(':') and to_lowercase are computed character by        *)
(* character.  Digests and signatures are symbolic records (an ideal,      *)
(* collision-free hash and an unforgeable signature scheme).               *)
(***************************************************************************)
EXTENDS Integers, Sequences, FiniteSets, TLC

VARIABLES
    value,                  \* validate_header: its argument (a parsed tag-list)
    vres,                   \* validate_header: its return value, or Pending
    clock,                  \* get_current_time(), in Unix seconds
    dkim_expiration_check,  \* the cargo feature "dkim-expiration-check"
    body,                   \* canonicalize_body_*: the argument
    canon,                  \* canonicalize_body_*: the return value
    entry,                  \* which entry point runs: "resolver" or "key"
    from_domain,            \* argument from_domain
    email,                  \* argument email (the parsed message)
    resolver,               \* argument resolver (the TXT records it serves)
    public_key,             \* argument public_key of verify_email_with_key
    ignore_body_hash,       \* argument ignore_body_hash of verify_email_with_key
    idx,                    \* position of the for loop over the headers
    last_error,             \* local last_error
    result,                 \* the value returned, or Running
    log,                    \* what each loop iteration did, in order
    header,                 \* canonicalize_header_*: the header as received
    hcanon,                 \* canonicalize_header_*: the return value
    messages,               \* two received forms of one signed message
    verdicts                \* what each entry point returns for the two

vars == <<value, vres, clock, dkim_expiration_check, body, canon, entry,
          from_domain, email, resolver, public_key, ignore_body_hash, idx,
          last_error, result, log,
          header, hcanon, messages, verdicts>>

(***************************************************************************)
(* Bounds of the model.                                                    *)
(***************************************************************************)
\* how many required tags an enumerated tag-list may lack
MaxAbsent == 2
\* how many seconds the clock may advance
MaxTick == 1
\* longest body handed to the body canonicalization
MaxBody == 5
\* most DKIM-Signature headers in a message
MaxHeaders == 2
\* longest header value given to the header canonicalizations
MaxValue == 4
\* longest message given in two line-ending forms
MaxRaw == 4

(***************************************************************************)
(* Text helpers (std::str).                                                *)
(***************************************************************************)
UpperCase == <<"A","B","C","D","E","F","G","H","I","J","K","L","M",
               "N","O","P","Q","R","S","T","U","V","W","X","Y","Z">>
LowerCase == <<"a","b","c","d","e","f","g","h","i","j","k","l","m",
               "n","o","p","q","r","s","t","u","v","w","x","y","z">>

\* char::to_lowercase on ASCII
lower_char(c) ==
    IF \E k \in 1..Len(UpperCase) : UpperCase[k] = c
    THEN LowerCase[CHOOSE k \in 1..Len(UpperCase) : UpperCase[k] = c]
    ELSE c

\* str::to_lowercase
to_lowercase(s) == [k \in 1..Len(s) |-> lower_char(s[k])]

\* str::ends_with / slice::ends_with
ends_with(s, suffix) ==
    /\ Len(suffix) <= Len(s)
    /\ SubSeq(s, Len(s) - Len(suffix) + 1, Len(s)) = suffix

\* str::split on a one-character separator: the pieces, in order
RECURSIVE split(_, _)
split(s, sep) ==
    IF \A k \in 1..Len(s) : s[k] # sep
    THEN <<s>>
    ELSE LET k == CHOOSE j \in 1..Len(s) :
                      s[j] = sep /\ \A m \in 1..(j - 1) : s[m] # sep
         IN <<SubSeq(s, 1, k - 1)>> \o split(SubSeq(s, k + 1, Len(s)), sep)

\* Vec::contains
contains(seq, x) == \E k \in 1..Len(seq) : seq[k] = x

(***************************************************************************)
(* Errors (DKIMError) and results.                                         *)
(***************************************************************************)
Err(kind, arg) == [kind |-> kind, arg |-> arg]
None == Err("None", "")
Ok == [ok |-> TRUE, err |-> None]
Fail(e) == [ok |-> FALSE, err |-> e]
Pending == [ok |-> FALSE, err |-> Err("Pending", "")]

(***************************************************************************)
(* validate_header.                                                        *)
(***************************************************************************)
\* header::REQUIRED_TAGS, in the order validate_header walks it
REQUIRED_TAGS == <<"v", "a", "b", "bh", "d", "h", "s">>

SIGN_EXPIRATION_DRIFT_MINS == 15

\* chrono::Duration::minutes(m), in seconds
minutes(m) == m * 60

\* DKIMHeader::get_tag: whether the tag is present
has_tag(tags, name) == name \in DOMAIN tags

\* The text "from" that validate_header looks for in h=
STR_from == <<"f", "r", "o", "m">>

\* The x= tag is its decimal text.  kind = "secs": the text of n, a timestamp
\* chrono can represent; "text": not the text of an i64 (parse fails and
\* unwrap_or_default gives 0); "far_future" and "far_past": the text of an
\* i64 outside the range of chrono's DateTime (from_timestamp gives None).
x_parse(x) == IF x.kind = "text" THEN 0 ELSE x.n
x_representable(x) == x.kind \in {"secs", "text"}

\* lib.rs 174-185: TRUE when the x= check returns SignatureExpired
expired(tags, now) ==
    /\ has_tag(tags, "x")
    /\ \/ ~x_representable(tags["x"])
       \/ now > x_parse(tags["x"]) + minutes(SIGN_EXPIRATION_DRIFT_MINS)

\* validate_header with the From check moved before the version check
validate_header_from_first(val, now, expiry_enabled) ==
    IF ~val.syntax_ok THEN Fail(Err("SignatureSyntaxError", ""))
    ELSE LET tags == val.tags
             absent == {k \in 1..Len(REQUIRED_TAGS) :
                            ~has_tag(tags, REQUIRED_TAGS[k])}
         IN IF absent # {}
            THEN Fail(Err("SignatureMissingRequiredTag",
                          REQUIRED_TAGS[CHOOSE k \in absent :
                                            \A m \in absent : k <= m]))
            ELSE IF ~contains([k \in 1..Len(split(tags["h"], ":")) |->
                                   to_lowercase(split(tags["h"], ":")[k])],
                              STR_from)
                 THEN Fail(Err("FromFieldNotSigned", ""))
            ELSE IF tags["v"] # "1" THEN Fail(Err("IncompatibleVersion", ""))
            ELSE IF has_tag(tags, "i") /\ ~ends_with(tags["i"], tags["d"])
                 THEN Fail(Err("DomainMismatch", ""))
            ELSE IF has_tag(tags, "q") /\ tags["q"] # "dns/txt"
                 THEN Fail(Err("UnsupportedQueryMethod", ""))
            ELSE IF expiry_enabled /\ expired(tags, now)
                 THEN Fail(Err("SignatureExpired", ""))
            ELSE Ok

\* validate_header reporting the last absent required tag instead of the first
validate_header_last_absent(val, now, expiry_enabled) ==
    IF ~val.syntax_ok THEN Fail(Err("SignatureSyntaxError", ""))
    ELSE LET tags == val.tags
             absent == {k \in 1..Len(REQUIRED_TAGS) :
                            ~has_tag(tags, REQUIRED_TAGS[k])}
         IN IF absent # {}
            THEN Fail(Err("SignatureMissingRequiredTag",
                          REQUIRED_TAGS[CHOOSE k \in absent :
                                            \A m \in absent : k >= m]))
            ELSE IF tags["v"] # "1" THEN Fail(Err("IncompatibleVersion", ""))
            ELSE IF has_tag(tags, "i") /\ ~ends_with(tags["i"], tags["d"])
                 THEN Fail(Err("DomainMismatch", ""))
            ELSE IF ~contains([k \in 1..Len(split(tags["h"], ":")) |->
                                   to_lowercase(split(tags["h"], ":")[k])],
                              STR_from)
                 THEN Fail(Err("FromFieldNotSigned", ""))
            ELSE IF has_tag(tags, "q") /\ tags["q"] # "dns/txt"
                 THEN Fail(Err("UnsupportedQueryMethod", ""))
            ELSE IF expiry_enabled /\ expired(tags, now)
                 THEN Fail(Err("SignatureExpired", ""))
            ELSE Ok

\* lib.rs 113-188
validate_header(val, now, expiry_enabled) ==
    IF ~val.syntax_ok THEN Fail(Err("SignatureSyntaxError", ""))
    ELSE LET tags == val.tags
             absent == {k \in 1..Len(REQUIRED_TAGS) :
                            ~has_tag(tags, REQUIRED_TAGS[k])}
         IN IF absent # {}
            THEN Fail(Err("SignatureMissingRequiredTag",
                          REQUIRED_TAGS[CHOOSE k \in absent :
                                            \A m \in absent : k <= m]))
            ELSE IF tags["v"] # "1" THEN Fail(Err("IncompatibleVersion", ""))
            ELSE IF has_tag(tags, "i") /\ ~ends_with(tags["i"], tags["d"])
                 THEN Fail(Err("DomainMismatch", ""))
            ELSE IF ~contains([k \in 1..Len(split(tags["h"], ":")) |->
                                   to_lowercase(split(tags["h"], ":")[k])],
                              STR_from)
                 THEN Fail(Err("FromFieldNotSigned", ""))
            ELSE IF has_tag(tags, "q") /\ tags["q"] # "dns/txt"
                 THEN Fail(Err("UnsupportedQueryMethod", ""))
            ELSE IF expiry_enabled /\ expired(tags, now)
                 THEN Fail(Err("SignatureExpired", ""))
            ELSE Ok

(***************************************************************************)
(* Inputs of validate_header: tag-lists as parser::tag_list returns them.  *)
(***************************************************************************)
\* the clock at the start, in Unix seconds
StartTime == 1700000000

STR_example_net == <<"e", "x", "a", "m", "p", "l", "e", ".", "n", "e", "t">>
STR_foo_at_example_net == <<"f", "o", "o", "@", "e", "x", "a", "m", "p", "l", "e", ".", "n", "e", "t">>
STR_foo_at_eng_example_net == <<"f", "o", "o", "@", "e", "n", "g", ".", "e", "x", "a", "m", "p", "l", "e", ".", "n", "e", "t">>
STR_foo_at_notexample_net == <<"f", "o", "o", "@", "n", "o", "t", "e", "x", "a", "m", "p", "l", "e", ".", "n", "e", "t">>
STR_foo_at_hein_com == <<"f", "o", "o", "@", "h", "e", "i", "n", ".", "c", "o", "m">>
STR_h_from == <<"f", "r", "o", "m">>
STR_h_From_B == <<"F", "r", "o", "m", ":", "B">>
STR_h_Subject_A_B == <<"S", "u", "b", "j", "e", "c", "t", ":", "A", ":", "B">>
STR_h_headers == <<"h", "e", "a", "d", "e", "r", "s">>

TagNames == {"v", "a", "b", "bh", "d", "h", "s", "i", "q", "x"}
RequiredNames == {REQUIRED_TAGS[k] : k \in 1..Len(REQUIRED_TAGS)}
OptionalNames == TagNames \ RequiredNames

XSecs == {StartTime - minutes(SIGN_EXPIRATION_DRIFT_MINS) + k : k \in -1..1}
             \cup {StartTime + 3600}
XValues == {[kind |-> "secs", n |-> n] : n \in XSecs}
               \cup {[kind |-> k, n |-> 0] : k \in {"text", "far_future", "far_past"}}

\* a tag-list carrying every tag
TagValues ==
    [v : {"1", "3"}, a : {"rsa-sha256"}, b : {"hash"}, bh : {"hash"},
     d : {STR_example_net}, s : {"brisbane"},
     h : {STR_h_from, STR_h_From_B, STR_h_Subject_A_B, STR_h_headers},
     i : {STR_foo_at_example_net, STR_foo_at_eng_example_net,
          STR_foo_at_notexample_net, STR_foo_at_hein_com},
     q : {"dns/txt", "dns/http"},
     x : XValues]

\* the tags of t whose names are in names
restrict(t, names) == [n \in names |-> t[n]]

\* what parser::tag_list makes of a text that is no tag-list
SyntaxError == [syntax_ok |-> FALSE, tags |-> restrict(<<>>, {})]

ValidateInputs ==
    {SyntaxError} \cup
    {[syntax_ok |-> TRUE, tags |-> restrict(t, (RequiredNames \ absent) \cup opt)] :
        t \in TagValues,
        absent \in {r \in SUBSET RequiredNames : Cardinality(r) <= MaxAbsent},
        opt \in SUBSET OptionalNames}

(***************************************************************************)
(* Values of the variables a specification does not use.                   *)
(***************************************************************************)
Idle == "idle"
ValidateIdle == value = SyntaxError /\ vres = Pending
BodyIdle == body = <<>> /\ canon = [done |-> FALSE, alg |-> "none", out |-> <<>>, again |-> <<>>]
VerifyIdle ==
    /\ entry = Idle /\ from_domain = <<>> /\ email = Idle /\ resolver = Idle
    /\ public_key = Idle /\ ignore_body_hash = FALSE /\ idx = 0
    /\ last_error = None /\ result = Idle /\ log = <<>>

HeaderPending == [alg |-> "none", key |-> <<>>, value |-> <<>>, out |-> <<>>]
HeaderIdle == header = Idle /\ hcanon = HeaderPending
LinesPending ==
    [entry |-> "none", a |-> Idle, b |-> Idle, hashed_a |-> <<>>, hashed_b |-> <<>>]
LinesIdle == messages = Idle /\ verdicts = LinesPending

validate_vars == <<value, vres>>
header_vars == <<header, hcanon>>
lines_vars == <<messages, verdicts>>
body_vars == <<body, canon>>
verify_vars == <<entry, from_domain, email, resolver, public_key,
                 ignore_body_hash, idx, last_error, result, log>>

(***************************************************************************)
(* SpecValidate: validate_header applied to every enumerated tag-list.     *)
(***************************************************************************)
InitValidate ==
    /\ value \in ValidateInputs
    /\ vres = Pending
    /\ clock = StartTime
    /\ dkim_expiration_check \in BOOLEAN
    /\ BodyIdle /\ VerifyIdle /\ HeaderIdle /\ LinesIdle

\* the system clock advances before validate_header reads it
Tick ==
    /\ vres = Pending
    /\ clock < StartTime + MaxTick
    /\ clock' = clock + 1
    /\ UNCHANGED <<validate_vars, dkim_expiration_check, header_vars, lines_vars, body_vars, verify_vars>>

Validate ==
    /\ vres = Pending
    /\ vres' = validate_header(value, clock, dkim_expiration_check)
    /\ UNCHANGED <<value, clock, dkim_expiration_check, header_vars, lines_vars, body_vars, verify_vars>>

NextValidate == Tick \/ Validate

SpecValidate == InitValidate /\ [][NextValidate]_vars

(***************************************************************************)
(* Claims about validate_header (checked under SpecValidate).              *)
(***************************************************************************)
Validated == vres # Pending
Tags == value.tags

\* the checks of validate_header, each stated on its own
RequiredPresent == \A n \in RequiredNames : has_tag(Tags, n)
VersionIsOne == Tags["v"] = "1"
IdentityHasDomainSuffix == has_tag(Tags, "i") => ends_with(Tags["i"], Tags["d"])
FromIsSigned ==
    \E k \in 1..Len(split(Tags["h"], ":")) :
        to_lowercase(split(Tags["h"], ":")[k]) = STR_from
QueryIsDnsTxt == has_tag(Tags, "q") => Tags["q"] = "dns/txt"
\* the expiry as the claims state it: the clock is later than x + 15 minutes
XSeconds == Tags["x"]
LaterThanDrift ==
    \/ XSeconds.kind = "far_past"
    \/ /\ XSeconds.kind \in {"secs", "text"}
       /\ clock > x_parse(XSeconds) + 15 * 60
NotExpired == (dkim_expiration_check /\ has_tag(Tags, "x")) => ~expired(Tags, clock)

\* the domain part of i=: the text after '@'
domain_part(i) == split(i, "@")[Len(split(i, "@"))]
\* dom is d or a sub-domain of d on a label boundary
within_domain(dom, d) == dom = d \/ ends_with(dom, <<".">> \o d)

\* C6: every accepted header that carries i= has the domain part of i= equal
\* to d= or a sub-domain of d= on a label boundary, and any other i= is
\* rejected with DomainMismatch once the tags are complete and v is 1.
C6_IdentityWithinDomain ==
    (Validated /\ value.syntax_ok /\ has_tag(Tags, "i") /\ has_tag(Tags, "d")) =>
        /\ vres.ok => within_domain(domain_part(Tags["i"]), Tags["d"])
        /\ (RequiredPresent /\ VersionIsOne
              /\ ~within_domain(domain_part(Tags["i"]), Tags["d"]))
           => vres.err.kind = "DomainMismatch"

C8_FirstMissingTag ==
    (Validated /\ value.syntax_ok /\ ~RequiredPresent) =>
        /\ vres.err.kind = "SignatureMissingRequiredTag"
        /\ \E k \in 1..Len(REQUIRED_TAGS) :
              /\ vres.err.arg = REQUIRED_TAGS[k]
              /\ ~has_tag(Tags, REQUIRED_TAGS[k])
              /\ \A m \in 1..(k - 1) : has_tag(Tags, REQUIRED_TAGS[m])

\* C8 witness: d= and s= are absent and the present v= is not 1; "d" is reported
C8_Witness ==
    /\ Validated /\ value.syntax_ok
    /\ ~has_tag(Tags, "d") /\ ~has_tag(Tags, "s")
    /\ has_tag(Tags, "v") /\ Tags["v"] = "3"
    /\ vres.err = Err("SignatureMissingRequiredTag", "d")

\* C9: with the expiration feature enabled and x= holding Unix seconds,
\* SignatureExpired is returned exactly when the clock is later than
\* x + 15 minutes (for a header that passes the checks before the expiry).
C9_ExpiredExactlyAfterDrift ==
    (Validated /\ value.syntax_ok /\ dkim_expiration_check /\ RequiredPresent
        /\ has_tag(Tags, "x") /\ XSeconds.kind # "text") =>
        /\ vres.err.kind = "SignatureExpired" => LaterThanDrift
        /\ (VersionIsOne /\ IdentityHasDomainSuffix /\ FromIsSigned
              /\ QueryIsDnsTxt /\ LaterThanDrift)
           => vres.err.kind = "SignatureExpired"

(***************************************************************************)
(* Body canonicalization (canonicalization.rs).  A byte is a one-character *)
(* string.                                                                 *)
(***************************************************************************)
CR == "\r"
LF == "\n"
CRLF == <<CR, LF>>
SP == " "
TAB == "\t"
Bytes == {CR, LF, "a", SP, TAB}

\* canonicalization.rs 104-106: the while loop
RECURSIVE strip_empty_lines(_)
strip_empty_lines(b) ==
    IF ends_with(b, CRLF \o CRLF)
    THEN strip_empty_lines(SubSeq(b, 1, Len(b) - 2))
    ELSE b

\* canonicalization.rs 99-109
canonicalize_body_simple(b) ==
    IF b = <<>> THEN CRLF ELSE strip_empty_lines(b)

\* every byte string of length at most n
RECURSIVE BytesUpTo(_)
BytesUpTo(n) ==
    IF n = 0 THEN {<<>>}
    ELSE BytesUpTo(n - 1) \cup
         {Append(b, c) : b \in {p \in BytesUpTo(n - 1) : Len(p) = n - 1}, c \in Bytes}

(***************************************************************************)
(* SpecBody: the body canonicalization applied to every body of bounded    *)
(* length.                                                                 *)
(***************************************************************************)
InitBody ==
    /\ body \in BytesUpTo(MaxBody)
    /\ canon = [done |-> FALSE, alg |-> "none", out |-> <<>>, again |-> <<>>]
    /\ clock = StartTime /\ dkim_expiration_check = FALSE
    /\ ValidateIdle /\ VerifyIdle /\ HeaderIdle /\ LinesIdle

\* bytes::replace(&mut body, '\t', ' ')
RECURSIVE replace(_, _, _)
replace(b, from, to) ==
    IF b = <<>> THEN <<>>
    ELSE <<IF Head(b) = from THEN to ELSE Head(b)>> \o replace(Tail(b), from, to)

\* canonicalization.rs 121-134: retain, dropping a SP that follows a SP
RECURSIVE retain_single_sp(_, _)
retain_single_sp(b, previous) ==
    IF b = <<>> THEN <<>>
    ELSE IF Head(b) = SP
         THEN IF previous THEN retain_single_sp(Tail(b), TRUE)
              ELSE <<SP>> \o retain_single_sp(Tail(b), TRUE)
         ELSE <<Head(b)>> \o retain_single_sp(Tail(b), FALSE)

starts_with(s, prefix) ==
    /\ Len(prefix) <= Len(s)
    /\ SubSeq(s, 1, Len(prefix)) = prefix

\* bytes::find: the index of the first occurrence of needle, 0 when absent
find(b, needle) ==
    LET hits == {i \in 1..Len(b) : starts_with(SubSeq(b, i, Len(b)), needle)}
    IN  IF hits = {} THEN 0 ELSE CHOOSE i \in hits : \A j \in hits : i <= j

remove(b, i) == SubSeq(b, 1, i - 1) \o SubSeq(b, i + 1, Len(b))

\* canonicalization.rs 137-139: while let Some(idx) = find(" \r\n")
RECURSIVE strip_line_end_sp(_)
strip_line_end_sp(b) ==
    LET i == find(b, <<SP>> \o CRLF)
    IN  IF i = 0 THEN b ELSE strip_line_end_sp(remove(b, i))

\* canonicalization.rs 148-151
add_crlf(b) == IF b # <<>> /\ ~ends_with(b, CRLF) THEN b \o CRLF ELSE b

canonicalize_body_relaxed(b) ==
    add_crlf(strip_empty_lines(strip_line_end_sp(
        retain_single_sp(replace(b, TAB, SP), FALSE))))

CanonSimple ==
    /\ ~canon.done
    /\ canon' = [done |-> TRUE, alg |-> "simple",
                 out |-> canonicalize_body_simple(body),
                 again |-> canonicalize_body_simple(canonicalize_body_simple(body))]
    /\ UNCHANGED <<body, validate_vars, clock, dkim_expiration_check, header_vars, lines_vars, verify_vars>>

CanonRelaxed ==
    /\ ~canon.done
    /\ canon' = [done |-> TRUE, alg |-> "relaxed",
                 out |-> canonicalize_body_relaxed(body),
                 again |-> canonicalize_body_relaxed(canonicalize_body_relaxed(body))]
    /\ UNCHANGED <<body, validate_vars, clock, dkim_expiration_check, header_vars, lines_vars, verify_vars>>

NextBody == CanonSimple \/ CanonRelaxed

SpecBody == InitBody /\ [][NextBody]_vars

\* the body with every trailing CRLF removed
RECURSIVE without_trailing_crlf(_)
without_trailing_crlf(b) ==
    IF ends_with(b, CRLF) THEN without_trailing_crlf(SubSeq(b, 1, Len(b) - 2)) ELSE b

\* C10: canonicalize_body_simple returns a byte string that ends in exactly
\* one CRLF, equal to the input with its trailing CRLFs reduced to one; for
\* the empty body it returns CRLF.
C10_SimpleEndsInOneCRLF ==
    canon.alg = "simple" =>
        /\ ends_with(canon.out, CRLF)
        /\ ~ends_with(canon.out, CRLF \o CRLF)
        /\ canon.out = without_trailing_crlf(body) \o CRLF
        /\ body = <<>> => canon.out = CRLF

\* the body is empty or made of CRLF sequences only
blank(b) == without_trailing_crlf(b) = <<>>

\* C11: canonicalize_body_relaxed maps a blank body (the empty body, or a
\* body made only of one or more CRLF sequences) to the empty byte string.
C11_RelaxedBlankIsEmpty ==
    (canon.alg = "relaxed" /\ blank(body)) => canon.out = <<>>

\* C12: body canonicalization is idempotent for both algorithms: applying
\* the same algorithm to its own output gives that output again.
C12_BodyCanonIdempotent ==
    canon.done => canon.again = canon.out

(***************************************************************************)
(* Header canonicalization (canonicalization.rs 157-209).                  *)
(***************************************************************************)
WhiteSpace == {SP, TAB, CR, LF}

\* str::trim_end
RECURSIVE trim_end(_)
trim_end(s) ==
    IF s # <<>> /\ s[Len(s)] \in WhiteSpace
    THEN trim_end(SubSeq(s, 1, Len(s) - 1)) ELSE s

\* bytes::replace_slice: every occurrence of from, left to right
RECURSIVE replace_slice(_, _, _)
replace_slice(b, from, to) ==
    IF b = <<>> THEN <<>>
    ELSE IF starts_with(b, from)
         THEN to \o replace_slice(SubSeq(b, Len(from) + 1, Len(b)), from, to)
         ELSE <<Head(b)>> \o replace_slice(Tail(b), from, to)

\* canonicalization.rs 187-189
RECURSIVE strip_trailing_sp(_)
strip_trailing_sp(v) ==
    IF ends_with(v, <<SP>>) THEN strip_trailing_sp(remove(v, Len(v))) ELSE v

\* canonicalization.rs 190-192
RECURSIVE strip_leading_sp(_)
strip_leading_sp(v) ==
    IF starts_with(v, <<SP>>) THEN strip_leading_sp(remove(v, 1)) ELSE v

\* a copy of canonicalize_header_value_relaxed that does not strip the ends
canonicalize_header_value_unstripped(v) ==
    retain_single_sp(replace_slice(replace(v, TAB, SP), CRLF, <<>>), FALSE)

canonicalize_header_value_relaxed(v) ==
    retain_single_sp(
        strip_leading_sp(strip_trailing_sp(
            replace_slice(replace(v, TAB, SP), CRLF, <<>>))), FALSE)

canonicalize_header_relaxed(key, v) ==
    trim_end(to_lowercase(key)) \o <<":">>
        \o canonicalize_header_value_relaxed(v) \o CRLF

canonicalize_header_simple(key, v) == key \o <<":", SP>> \o v \o CRLF

\* the bytes of a header line before its terminating CRLF
received(h) == h.key \o <<":">> \o h.gap \o h.value

\* the raw value the parsed message hands out: what follows the colon,
\* without the white space in front of it
RECURSIVE skip_wsp(_)
skip_wsp(v) ==
    IF v # <<>> /\ Head(v) \in {SP, TAB} THEN skip_wsp(Tail(v)) ELSE v

get_value_raw(h) == skip_wsp(h.gap \o h.value)

RECURSIVE SeqsUpTo(_, _)
SeqsUpTo(S, n) ==
    IF n = 0 THEN {<<>>}
    ELSE LET shorter == SeqsUpTo(S, n - 1)
         IN  shorter \cup {<<c>> \o t : c \in S, t \in {u \in shorter : Len(u) = n - 1}}

FieldNames == {<<"S", "u">>, <<"s">>, <<"S", SP, TAB>>}
Gaps == {<<>>, <<SP>>, <<SP, SP>>, <<TAB>>}
ValueBytes == {"b", SP, TAB, CR, LF}

InitHeader ==
    /\ header \in [key : FieldNames, gap : Gaps, value : SeqsUpTo(ValueBytes, MaxValue)]
    /\ hcanon = HeaderPending
    /\ clock = StartTime /\ dkim_expiration_check = FALSE
    /\ ValidateIdle /\ BodyIdle /\ VerifyIdle /\ LinesIdle

\* the function applied to a name and a value
HeaderRelaxed ==
    /\ hcanon = HeaderPending
    /\ hcanon' = [alg |-> "relaxed", key |-> header.key, value |-> header.value,
                  out |-> canonicalize_header_relaxed(header.key, header.value)]
    /\ UNCHANGED <<header, validate_vars, body_vars, clock, dkim_expiration_check,
                   verify_vars, lines_vars>>

\* the function applied to the name and raw value of a received header
HeaderSimple ==
    /\ hcanon = HeaderPending
    /\ hcanon' = [alg |-> "simple", key |-> header.key, value |-> get_value_raw(header),
                  out |-> canonicalize_header_simple(header.key, get_value_raw(header))]
    /\ UNCHANGED <<header, validate_vars, body_vars, clock, dkim_expiration_check,
                   verify_vars, lines_vars>>

NextHeader == HeaderRelaxed \/ HeaderSimple

SpecHeader == InitHeader /\ [][NextHeader]_vars

\* the spec's steps, in the spec's order: TAB to SP, delete CRLF, collapse
\* runs of SP, strip leading and trailing SP
relaxed_value_in_spec_order(v) ==
    strip_leading_sp(strip_trailing_sp(
        retain_single_sp(replace_slice(replace(v, TAB, SP), CRLF, <<>>), FALSE)))

\* the value between the colon and the final CRLF of a relaxed output
emitted_value(out, key) ==
    SubSeq(out, Len(trim_end(to_lowercase(key))) + 2, Len(out) - 2)

\* C13: canonicalize_header_relaxed returns name ":" value CRLF, the name
\* lowercased and without trailing white space, the value as the spec's
\* steps give it; the value has no TAB, no two consecutive SP and no SP at
\* either end.
C13_RelaxedHeaderAsSpecified ==
    hcanon.alg = "relaxed" =>
        LET name == trim_end(to_lowercase(hcanon.key))
            v == emitted_value(hcanon.out, hcanon.key)
        IN  /\ hcanon.out = name \o <<":">> \o relaxed_value_in_spec_order(hcanon.value) \o CRLF
            /\ \A k \in 1..Len(name) : ~contains(UpperCase, name[k])
            /\ name = <<>> \/ name[Len(name)] \notin WhiteSpace
            /\ ~contains(v, TAB)
            /\ \A k \in 1..(Len(v) - 1) : ~(v[k] = SP /\ v[k + 1] = SP)
            /\ ~starts_with(v, <<SP>>) /\ ~ends_with(v, <<SP>>)

\* a value with TAB, CRLF and SP at both ends and a run of SP inside
C13_Witness ==
    /\ hcanon.alg = "relaxed"
    /\ hcanon.key = <<"S", SP, TAB>>
    /\ hcanon.value = <<TAB, "b", CR, LF>>
    /\ hcanon.out = <<"s", ":", "b", CR, LF>>

\* C14: canonicalize_header_simple emits the header exactly as received,
\* followed by CRLF, whatever white space followed the colon.
C14_SimpleHeaderAsReceived ==
    hcanon.alg = "simple" => hcanon.out = received(header) \o CRLF

(***************************************************************************)
(* Parsing of c= and a= (parser.rs), hashing (hash.rs) and key retrieval   *)
(* (public_key.rs).                                                        *)
(***************************************************************************)
\* parser::parse_canonicalization: (header, body) types, both Simple when c=
\* is absent, the body half Simple when it is missing
parse_canonicalization(tags) ==
    IF ~has_tag(tags, "c") THEN [ok |-> TRUE, hc |-> "simple", bc |-> "simple"]
    ELSE CASE tags["c"] = "simple/simple" -> [ok |-> TRUE, hc |-> "simple", bc |-> "simple"]
           [] tags["c"] = "simple/relaxed" -> [ok |-> TRUE, hc |-> "simple", bc |-> "relaxed"]
           [] tags["c"] = "relaxed/simple" -> [ok |-> TRUE, hc |-> "relaxed", bc |-> "simple"]
           [] tags["c"] = "relaxed/relaxed" -> [ok |-> TRUE, hc |-> "relaxed", bc |-> "relaxed"]
           [] tags["c"] = "simple" -> [ok |-> TRUE, hc |-> "simple", bc |-> "simple"]
           [] tags["c"] = "relaxed" -> [ok |-> TRUE, hc |-> "relaxed", bc |-> "simple"]
           [] OTHER -> [ok |-> FALSE, hc |-> "", bc |-> ""]

\* parser::parse_hash_algo
parse_hash_algo(a) ==
    CASE a = "rsa-sha1" -> [ok |-> TRUE, algo |-> "RsaSha1"]
      [] a = "rsa-sha256" -> [ok |-> TRUE, algo |-> "RsaSha256"]
      [] a = "ed25519-sha256" -> [ok |-> TRUE, algo |-> "Ed25519Sha256"]
      [] OTHER -> [ok |-> FALSE, algo |-> ""]

\* the digest a HashAlgo stands for
digest_of(algo) == IF algo = "RsaSha1" THEN "sha1" ELSE "sha256"

\* hash::compute_body_hash: the base64 text of the digest of the canonicalized
\* body, as a symbolic value (equal exactly when its inputs are equal)
compute_body_hash(bc, algo, mail_body) ==
    [digest |-> digest_of(algo), canon |-> bc, body |-> mail_body]

\* hash::compute_headers_hash: the digest of the canonicalized headers that h=
\* selects, followed by the DKIM-Signature header with the value of b= erased
compute_headers_hash(hc, algo, tags, mail_signed) ==
    [digest |-> digest_of(algo), canon |-> hc, signed |-> mail_signed,
     dkim |-> restrict(tags, DOMAIN tags \ {"b"})]

\* public_key::retrieve_public_key: the TXT record at <s>._domainkey.<d>
retrieve_public_key(zone, d, s) ==
    IF <<s, to_lowercase(d)>> \in DOMAIN zone
    THEN [ok |-> TRUE, key |-> zone[<<s, to_lowercase(d)>>]]
    ELSE [ok |-> FALSE, key |-> [type |-> "", id |-> ""]]

(***************************************************************************)
(* verify_signature and verify_email_header.                               *)
(***************************************************************************)
\* Pkcs1v15Sign::verify / VerifyingKey::verify_strict: the signature was made
\* with this scheme, by the private half of this key, over this message
scheme_verify(scheme, key, msg, signature) ==
    /\ signature.scheme = scheme
    /\ signature.key = key.id
    /\ signature.over = msg

\* lib.rs 214-241; the result is [ok, valid, err]
\* verify_signature without the length test on an Ed25519 signature
verify_signature_any_length(hash_algo, header_hash, signature, key) ==
    IF key.type = "rsa"
    THEN IF hash_algo = "RsaSha256"
         THEN [ok |-> TRUE, err |-> None,
               valid |-> scheme_verify("pkcs1v15-sha256", key, header_hash, signature)]
         ELSE IF hash_algo = "RsaSha1"
         THEN [ok |-> TRUE, err |-> None,
               valid |-> scheme_verify("pkcs1v15-sha1", key, header_hash, signature)]
         ELSE [ok |-> FALSE, err |-> Err("UnsupportedHashAlgorithm", hash_algo),
               valid |-> FALSE]
    ELSE [ok |-> TRUE, err |-> None,
          valid |-> scheme_verify("ed25519", key, header_hash, signature)]

verify_signature(hash_algo, header_hash, signature, key) ==
    IF key.type = "rsa"
    THEN IF hash_algo = "RsaSha256"
         THEN [ok |-> TRUE, err |-> None,
               valid |-> scheme_verify("pkcs1v15-sha256", key, header_hash, signature)]
         ELSE IF hash_algo = "RsaSha1"
         THEN [ok |-> TRUE, err |-> None,
               valid |-> scheme_verify("pkcs1v15-sha1", key, header_hash, signature)]
         ELSE [ok |-> FALSE, err |-> Err("UnsupportedHashAlgorithm", hash_algo),
               valid |-> FALSE]
    ELSE IF signature.len # 64
         THEN [ok |-> FALSE, err |-> Err("SignatureSyntaxError", ""), valid |-> FALSE]
         ELSE [ok |-> TRUE, err |-> None,
               valid |-> scheme_verify("ed25519", key, header_hash, signature)]

\* what one loop iteration reports: the error (None on success), the steps it
\* took, in order, and the canonicalization types of a pass
Outcome(e, steps, hc, bc) == [err |-> e, steps |-> steps, hc |-> hc, bc |-> bc]

\* check_hashes decoding b= before it compares the body hash
check_hashes_decode_first(tags, mail, key, cz, algo, check_bh, before) ==
    LET body_hash == compute_body_hash(cz.bc, algo, mail.body)
        headers_hash == compute_headers_hash(cz.hc, algo, tags, mail.signed)
        s1 == before \o <<"decode_b">>
        s2 == IF check_bh THEN s1 \o <<"compare_bh">> ELSE s1
        s3 == s2 \o <<"verify_signature">>
        vs == verify_signature(algo, headers_hash, tags["b"].bytes, key)
    IN IF ~tags["b"].base64_ok
       THEN Outcome(Err("SignatureSyntaxError", ""), s1, "", "")
       ELSE IF check_bh /\ tags["bh"] # body_hash
       THEN Outcome(Err("BodyHashDidNotVerify", ""), s2, "", "")
       ELSE IF ~vs.ok THEN Outcome(vs.err, s3, "", "")
       ELSE IF ~vs.valid THEN Outcome(Err("SignatureDidNotVerify", ""), s3, "", "")
       ELSE Outcome(None, s3, cz.hc, cz.bc)

\* lib.rs 273-291 and 759-787: the body-hash comparison, the decoding of b=
\* and verify_signature.  check_bh is FALSE when the comparison is skipped.
check_hashes(tags, mail, key, cz, algo, check_bh, before) ==
    LET body_hash == compute_body_hash(cz.bc, algo, mail.body)
        headers_hash == compute_headers_hash(cz.hc, algo, tags, mail.signed)
        s1 == IF check_bh THEN before \o <<"compare_bh">> ELSE before
        s2 == s1 \o <<"decode_b">>
        s3 == s2 \o <<"verify_signature">>
        vs == verify_signature(algo, headers_hash, tags["b"].bytes, key)
    IN IF check_bh /\ tags["bh"] # body_hash
       THEN Outcome(Err("BodyHashDidNotVerify", ""), s1, "", "")
       ELSE IF ~tags["b"].base64_ok
       THEN Outcome(Err("SignatureSyntaxError", ""), s2, "", "")
       ELSE IF ~vs.ok THEN Outcome(vs.err, s3, "", "")
       ELSE IF ~vs.valid THEN Outcome(Err("SignatureDidNotVerify", ""), s3, "", "")
       ELSE Outcome(None, s3, cz.hc, cz.bc)

\* lib.rs 244-292
verify_email_header(zone, tags, mail) ==
    LET pk == retrieve_public_key(zone, tags["d"], tags["s"])
        cz == parse_canonicalization(tags)
        ha == parse_hash_algo(tags["a"])
    IN IF ~pk.ok THEN Outcome(Err("KeyUnavailable", ""), <<"lookup">>, "", "")
       ELSE IF ~cz.ok
       THEN Outcome(Err("UnsupportedCanonicalizationType", ""),
                    <<"lookup", "parse_c">>, "", "")
       ELSE IF ~ha.ok
       THEN Outcome(Err("UnsupportedHashAlgorithm", tags["a"]),
                    <<"lookup", "parse_c", "parse_a">>, "", "")
       ELSE check_hashes(tags, mail, pk.key, cz, ha.algo, TRUE,
                         <<"lookup", "parse_c", "parse_a", "body_hash", "headers_hash">>)

\* lib.rs 746-787: what verify_email_with_key does with a header of the
\* sender's domain
verify_with_key(key, skip_bh, tags, mail) ==
    LET cz == parse_canonicalization(tags)
        ha == parse_hash_algo(tags["a"])
    IN IF ~cz.ok
       THEN Outcome(Err("UnsupportedCanonicalizationType", ""), <<"parse_c">>, "", "")
       ELSE IF ~ha.ok
       THEN Outcome(Err("UnsupportedHashAlgorithm", tags["a"]),
                    <<"parse_c", "parse_a">>, "", "")
       ELSE check_hashes(tags, mail, key, cz, ha.algo, ~skip_bh,
                         IF skip_bh THEN <<"parse_c", "parse_a", "headers_hash">>
                         ELSE <<"parse_c", "parse_a", "headers_hash", "body_hash">>)

(***************************************************************************)
(* Keys, signatures and the messages the verification is run on.           *)
(***************************************************************************)
STR_EXAMPLE_NET == <<"E", "X", "A", "M", "P", "L", "E", ".", "N", "E", "T">>
STR_Example_Net == <<"E", "x", "a", "m", "p", "l", "e", ".", "N", "e", "t">>
STR_other_net == <<"o", "t", "h", "e", "r", ".", "n", "e", "t">>
STR_hein_com == <<"h", "e", "i", "n", ".", "c", "o", "m">>

KeyRsa == [type |-> "rsa", id |-> "newengland"]
KeyRsaOther == [type |-> "rsa", id |-> "other"]
KeyEd == [type |-> "ed25519", id |-> "brisbane"]

\* the TXT records of the zone the resolver serves (selector "gone" has none)
Zone ==
    (<<"newengland", STR_example_net>> :> KeyRsa)
    @@ (<<"brisbane", STR_example_net>> :> KeyEd)
    @@ (<<"newengland", STR_other_net>> :> KeyRsaOther)

\* the scheme and the signature length a signer with this key produces
scheme_of(key, algo) ==
    IF key.type = "ed25519" THEN "ed25519"
    ELSE IF algo = "RsaSha1" THEN "pkcs1v15-sha1" ELSE "pkcs1v15-sha256"
signature_len(key) == IF key.type = "ed25519" THEN 64 ELSE 128

\* sign::DKIMSigner: t is the tag-list without bh= and b=; the signer hashes
\* the body signed_body and the headers signed_headers and signs with key
sign(t, key, signed_body, signed_headers) ==
    LET cz == parse_canonicalization(t)
        ha == parse_hash_algo(t["a"])
        hc == IF cz.ok THEN cz.hc ELSE "simple"
        bc == IF cz.ok THEN cz.bc ELSE "simple"
        algo == IF ha.ok THEN ha.algo ELSE "RsaSha256"
        t1 == t @@ ("bh" :> compute_body_hash(bc, algo, signed_body))
    IN t1 @@ ("b" :> [base64_ok |-> TRUE,
                      bytes |-> [len |-> signature_len(key),
                                 scheme |-> scheme_of(key, algo),
                                 key |-> key.id,
                                 over |-> compute_headers_hash(hc, algo, t1,
                                                               signed_headers)]])

\* the same header with a b= that is not base64
bad_base64(tags) == [tags EXCEPT !["b"].base64_ok = FALSE]

BaseTags ==
    [v |-> "1", a |-> "rsa-sha256", d |-> STR_example_net, s |-> "newengland",
     h |-> STR_h_from]

Header(tags) == [syntax_ok |-> TRUE, tags |-> tags]

\* a valid RSA signature of the sender's domain
HdrGood == Header(sign(BaseTags, KeyRsa, "body", "headers"))
\* the same with d= in upper case
HdrGoodUpper ==
    Header(sign([BaseTags EXCEPT !.d = STR_EXAMPLE_NET], KeyRsa, "body", "headers"))
\* a valid Ed25519 signature of the sender's domain
HdrGoodEd ==
    Header(sign([BaseTags EXCEPT !.a = "ed25519-sha256", !.s = "brisbane"],
                KeyEd, "body", "headers"))
\* a=rsa-sha256 declared over a signature made with the Ed25519 key
HdrEdDeclaredRsa ==
    Header(sign([BaseTags EXCEPT !.s = "brisbane"], KeyEd, "body", "headers"))
\* a valid signature of another domain
HdrOther ==
    Header(sign([BaseTags EXCEPT !.d = STR_other_net], KeyRsaOther, "body", "headers"))
\* a header of another domain that fails validate_header (v=3)
HdrOtherBadVersion ==
    Header(sign([BaseTags EXCEPT !.d = STR_other_net, !.v = "3"],
                KeyRsaOther, "body", "headers"))
\* a header without d=
HdrNoDomain == Header(restrict(HdrGood.tags, DOMAIN HdrGood.tags \ {"d"}))
\* the sender's domain, an unknown c=
HdrBadCanon == Header(sign(BaseTags @@ ("c" :> "nofws"), KeyRsa, "body", "headers"))
\* the sender's domain, an unknown a=
HdrBadAlgo ==
    Header(sign([BaseTags EXCEPT !.a = "rsa-md5"], KeyRsa, "body", "headers"))
\* the sender's domain, signed over another body: bh= does not match, b= is a
\* valid signature of the header
HdrBadBodyHash == Header(sign(BaseTags, KeyRsa, "another body", "headers"))
\* bh= does not match and b= is not base64
HdrBadBodyHashBadBase64 == Header(bad_base64(HdrBadBodyHash.tags))
\* b= is not base64
HdrBadBase64 == Header(bad_base64(HdrGood.tags))
\* signed with a key that is not the published one
HdrForged == Header(sign(BaseTags, KeyRsaOther, "body", "headers"))
\* the selector has no TXT record
HdrNoKey == Header(sign([BaseTags EXCEPT !.s = "gone"], KeyRsa, "body", "headers"))
\* x= lies far in the past
HdrExpired ==
    Header(sign(BaseTags @@ ("x" :> [kind |-> "secs", n |-> StartTime - 3600]),
                KeyRsa, "body", "headers"))

HeaderPool ==
    {SyntaxError, HdrGood, HdrGoodUpper, HdrGoodEd, HdrEdDeclaredRsa, HdrOther, HdrOtherBadVersion,
     HdrNoDomain, HdrBadCanon, HdrBadAlgo, HdrBadBodyHash, HdrBadBodyHashBadBase64,
     HdrBadBase64, HdrForged, HdrNoKey, HdrExpired}

\* every sequence of at most n headers of the pool
RECURSIVE HeadersUpTo(_)
HeadersUpTo(n) ==
    IF n = 0 THEN {<<>>}
    ELSE HeadersUpTo(n - 1) \cup
         {Append(hs, h) : hs \in {p \in HeadersUpTo(n - 1) : Len(p) = n - 1},
                          h \in HeaderPool}

\* the messages: the DKIM-Signature headers in document order, the body and
\* the other headers as received ("body" and "headers" are what was signed)
Emails ==
    [headers : HeadersUpTo(MaxHeaders), body : {"body", "tampered body"},
     signed : {"headers"}]

(***************************************************************************)
(* The results (result.rs) and the two verification loops.                 *)
(***************************************************************************)
Running == [tag |-> "Running", status |-> "", err |-> None, domain |-> <<>>,
            hc |-> "", bc |-> ""]
\* Ok(DKIMResult::pass(..)), Ok(DKIMResult::fail(..)), Ok(DKIMResult::neutral(..))
DKIMResult_pass(domain, hc, bc) ==
    [tag |-> "Ok", status |-> "pass", err |-> None, domain |-> domain,
     hc |-> hc, bc |-> bc]
DKIMResult_fail(e, domain) ==
    [tag |-> "Ok", status |-> "fail", err |-> e, domain |-> domain,
     hc |-> "", bc |-> ""]
DKIMResult_neutral(domain) ==
    [tag |-> "Ok", status |-> "neutral", err |-> None, domain |-> domain,
     hc |-> "", bc |-> ""]
\* Err(e)
ReturnErr(e) ==
    [tag |-> "Err", status |-> "", err |-> e, domain |-> <<>>, hc |-> "", bc |-> ""]

\* one entry of log: what the iteration over header k did
Entry(k, kind, o) == [hdr |-> k, kind |-> kind, err |-> o.err, steps |-> o.steps]

\* after_loop with the test of last_error inverted
after_loop_inverted(last, domain) ==
    IF last = None THEN DKIMResult_fail(last, domain) ELSE DKIMResult_neutral(domain)

\* lib.rs 339-343 and 790-794
after_loop(last, domain) ==
    IF last # None THEN DKIMResult_fail(last, domain) ELSE DKIMResult_neutral(domain)

InitVerify ==
    /\ entry \in {"resolver", "key"}
    /\ from_domain \in {STR_Example_Net, STR_hein_com}
    /\ email \in Emails
    /\ resolver = IF entry = "resolver" THEN Zone ELSE Idle
    /\ public_key \in IF entry = "key" THEN {KeyRsa, KeyEd} ELSE {Idle}
    /\ ignore_body_hash \in IF entry = "key" THEN BOOLEAN ELSE {FALSE}
    /\ idx = IF entry = "resolver" THEN 1 ELSE 0
    /\ last_error = None
    /\ result = Running
    /\ log = <<>>
    /\ clock = StartTime
    /\ dkim_expiration_check = TRUE
    /\ ValidateIdle /\ BodyIdle /\ HeaderIdle /\ LinesIdle

\* ResolverIterate keeping the first error recorded instead of the last
ResolverIterate_keep_first ==
    /\ entry = "resolver" /\ result = Running
    /\ idx \in 1..Len(email.headers)
    /\ LET val == email.headers[idx]
           checked == validate_header(val, clock, dkim_expiration_check)
       IN IF ~checked.ok
          THEN /\ last_error' = IF last_error = None THEN checked.err ELSE last_error
               /\ log' = Append(log, Entry(idx, "invalid",
                                           Outcome(checked.err, <<>>, "", "")))
               /\ idx' = idx + 1
               /\ UNCHANGED result
          ELSE IF to_lowercase(val.tags["d"]) # to_lowercase(from_domain)
          THEN /\ log' = Append(log, Entry(idx, "skipped", Outcome(None, <<>>, "", "")))
               /\ idx' = idx + 1
               /\ UNCHANGED <<last_error, result>>
          ELSE LET o == verify_email_header(resolver, val.tags, email)
               IN IF o.err = None
                  THEN /\ result' = DKIMResult_pass(val.tags["d"], o.hc, o.bc)
                       /\ log' = Append(log, Entry(idx, "passed", o))
                       /\ UNCHANGED <<idx, last_error>>
                  ELSE /\ last_error' = IF last_error = None THEN o.err ELSE last_error
                       /\ log' = Append(log, Entry(idx, "failed", o))
                       /\ idx' = idx + 1
                       /\ UNCHANGED result
    /\ UNCHANGED <<entry, from_domain, email, resolver, public_key, ignore_body_hash,
                   clock, dkim_expiration_check, header_vars, lines_vars, validate_vars, body_vars>>

\* ResolverIterate with the key looked up before d= is compared
ResolverIterate_lookup_first ==
    /\ entry = "resolver" /\ result = Running
    /\ idx \in 1..Len(email.headers)
    /\ LET val == email.headers[idx]
           checked == validate_header(val, clock, dkim_expiration_check)
       IN IF ~checked.ok
          THEN /\ last_error' = checked.err
               /\ log' = Append(log, Entry(idx, "invalid",
                                           Outcome(checked.err, <<>>, "", "")))
               /\ idx' = idx + 1
               /\ UNCHANGED result
          ELSE IF to_lowercase(val.tags["d"]) # to_lowercase(from_domain)
          THEN /\ log' = Append(log, Entry(idx, "skipped",
                                           Outcome(None, <<"lookup">>, "", "")))
               /\ idx' = idx + 1
               /\ UNCHANGED <<last_error, result>>
          ELSE LET o == verify_email_header(resolver, val.tags, email)
               IN IF o.err = None
                  THEN /\ result' = DKIMResult_pass(val.tags["d"], o.hc, o.bc)
                       /\ log' = Append(log, Entry(idx, "passed", o))
                       /\ UNCHANGED <<idx, last_error>>
                  ELSE /\ last_error' = o.err
                       /\ log' = Append(log, Entry(idx, "failed", o))
                       /\ idx' = idx + 1
                       /\ UNCHANGED result
    /\ UNCHANGED <<entry, from_domain, email, resolver, public_key, ignore_body_hash,
                   clock, dkim_expiration_check, header_vars, lines_vars, validate_vars, body_vars>>

\* lib.rs 304-337: one iteration of the loop of verify_email_with_resolver
ResolverIterate ==
    /\ entry = "resolver" /\ result = Running
    /\ idx \in 1..Len(email.headers)
    /\ LET val == email.headers[idx]
           checked == validate_header(val, clock, dkim_expiration_check)
       IN IF ~checked.ok
          THEN /\ last_error' = checked.err
               /\ log' = Append(log, Entry(idx, "invalid",
                                           Outcome(checked.err, <<>>, "", "")))
               /\ idx' = idx + 1
               /\ UNCHANGED result
          ELSE IF to_lowercase(val.tags["d"]) # to_lowercase(from_domain)
          THEN /\ log' = Append(log, Entry(idx, "skipped", Outcome(None, <<>>, "", "")))
               /\ idx' = idx + 1
               /\ UNCHANGED <<last_error, result>>
          ELSE LET o == verify_email_header(resolver, val.tags, email)
               IN IF o.err = None
                  THEN /\ result' = DKIMResult_pass(val.tags["d"], o.hc, o.bc)
                       /\ log' = Append(log, Entry(idx, "passed", o))
                       /\ UNCHANGED <<idx, last_error>>
                  ELSE /\ last_error' = o.err
                       /\ log' = Append(log, Entry(idx, "failed", o))
                       /\ idx' = idx + 1
                       /\ UNCHANGED result
    /\ UNCHANGED <<entry, from_domain, email, resolver, public_key, ignore_body_hash,
                   clock, dkim_expiration_check, header_vars, lines_vars, validate_vars, body_vars>>

\* lib.rs 339-343: the loop of verify_email_with_resolver has ended
ResolverFinish ==
    /\ entry = "resolver" /\ result = Running
    /\ idx > Len(email.headers)
    /\ result' = after_loop(last_error, from_domain)
    /\ UNCHANGED <<entry, from_domain, email, resolver, public_key, ignore_body_hash,
                   idx, last_error, log, clock, dkim_expiration_check, header_vars, lines_vars,
                   validate_vars, body_vars>>

\* lib.rs 718-724: the message is normalized and parsed again, which may fail
KeyStart ==
    /\ entry = "key" /\ result = Running /\ idx = 0
    /\ \E parsed \in BOOLEAN :
          IF parsed
          THEN idx' = 1 /\ UNCHANGED result
          ELSE result' = ReturnErr(Err("SignatureSyntaxError", "")) /\ UNCHANGED idx
    /\ UNCHANGED <<entry, from_domain, email, resolver, public_key, ignore_body_hash,
                   last_error, log, clock, dkim_expiration_check, header_vars, lines_vars,
                   validate_vars, body_vars>>

\* lib.rs 726-788: one iteration of the loop of verify_email_with_key
KeyIterate ==
    /\ entry = "key" /\ result = Running
    /\ idx \in 1..Len(email.headers)
    /\ LET val == email.headers[idx]
           checked == validate_header(val, clock, dkim_expiration_check)
       IN IF ~checked.ok
          THEN /\ last_error' = checked.err
               /\ log' = Append(log, Entry(idx, "invalid",
                                           Outcome(checked.err, <<>>, "", "")))
               /\ idx' = idx + 1
               /\ UNCHANGED result
          ELSE IF to_lowercase(val.tags["d"]) # to_lowercase(from_domain)
          THEN /\ log' = Append(log, Entry(idx, "skipped", Outcome(None, <<>>, "", "")))
               /\ idx' = idx + 1
               /\ UNCHANGED <<last_error, result>>
          ELSE LET o == verify_with_key(public_key, ignore_body_hash, val.tags, email)
               IN IF o.err = None
                  THEN /\ result' = DKIMResult_pass(val.tags["d"], o.hc, o.bc)
                       /\ log' = Append(log, Entry(idx, "passed", o))
                       /\ UNCHANGED <<idx, last_error>>
                  ELSE /\ result' = ReturnErr(o.err)
                       /\ log' = Append(log, Entry(idx, "failed", o))
                       /\ UNCHANGED <<idx, last_error>>
    /\ UNCHANGED <<entry, from_domain, email, resolver, public_key, ignore_body_hash,
                   clock, dkim_expiration_check, header_vars, lines_vars, validate_vars, body_vars>>

\* lib.rs 790-794: the loop of verify_email_with_key has ended
KeyFinish ==
    /\ entry = "key" /\ result = Running
    /\ idx > Len(email.headers)
    /\ result' = after_loop(last_error, from_domain)
    /\ UNCHANGED <<entry, from_domain, email, resolver, public_key, ignore_body_hash,
                   idx, last_error, log, clock, dkim_expiration_check, header_vars, lines_vars,
                   validate_vars, body_vars>>

Next == ResolverIterate \/ ResolverFinish \/ KeyStart \/ KeyIterate \/ KeyFinish

Spec == InitVerify /\ [][Next]_vars

(***************************************************************************)
(* Claims about the verification loops (checked under Spec).               *)
(***************************************************************************)
Returned == result # Running
HdrCount == Len(email.headers)
TagsOf(k) == email.headers[k].tags
\* header k carries a d= equal to from_domain, case-insensitively
Matches(k) ==
    /\ email.headers[k].syntax_ok
    /\ has_tag(TagsOf(k), "d")
    /\ to_lowercase(TagsOf(k)["d"]) = to_lowercase(from_domain)
Valid(k) == validate_header(email.headers[k], clock, dkim_expiration_check).ok
ValidationError(k) == validate_header(email.headers[k], clock, dkim_expiration_check).err
\* what the entry point that runs makes of header k, a valid header of the
\* sender's domain
Checked(k) ==
    IF entry = "resolver" THEN verify_email_header(resolver, TagsOf(k), email)
    ELSE verify_with_key(public_key, ignore_body_hash, TagsOf(k), email)
Passes(k) == Valid(k) /\ Matches(k) /\ Checked(k).err = None
\* the error header k gives rise to, None when it gives none
ErrorOf(k) ==
    IF ~Valid(k) THEN ValidationError(k)
    ELSE IF ~Matches(k) THEN None
    ELSE Checked(k).err
Least(S) == CHOOSE k \in S : \A m \in S : k <= m
Greatest(S) == CHOOSE k \in S : \A m \in S : k >= m

\* C1: verify_email_with_resolver examines the headers in document order and
\* returns Pass for the first header that validates, is of from_domain and
\* verifies; without such a header it returns Fail with the error of the
\* latest failing header, and Neutral only when no header gave an error.
C1_FirstPassElseLastError ==
    (entry = "resolver" /\ Returned) =>
        LET passing == {k \in 1..HdrCount : Passes(k)}
            failing == {k \in 1..HdrCount : ErrorOf(k) # None}
        IN /\ \A j \in 1..Len(log) : log[j].hdr = j
           /\ IF passing # {}
              THEN /\ Len(log) = Least(passing)
                   /\ result = DKIMResult_pass(TagsOf(Least(passing))["d"],
                                               Checked(Least(passing)).hc,
                                               Checked(Least(passing)).bc)
              ELSE IF failing # {}
              THEN result = DKIMResult_fail(ErrorOf(Greatest(failing)), from_domain)
              ELSE result = DKIMResult_neutral(from_domain)

\* C1 witness: two headers failed with different errors and the result is Fail
\* with the error of the second
C1_Witness ==
    /\ entry = "resolver" /\ Returned /\ HdrCount = 2
    /\ ErrorOf(1) # None /\ ErrorOf(2) # None /\ ErrorOf(1) # ErrorOf(2)
    /\ result = DKIMResult_fail(ErrorOf(2), from_domain)

\* C2: in both entry points, when a header of from_domain fails and a later
\* header of from_domain is a valid signature, the result is Pass.
C2_LaterSignatureStillTried ==
    (Returned /\ (entry = "key" => idx >= 1)) =>
        \A j, k \in 1..HdrCount :
            (j < k /\ Valid(j) /\ Matches(j) /\ Checked(j).err # None
                /\ (\A m \in 1..(k - 1) : ~Passes(m)) /\ Passes(k))
            => result.tag = "Ok" /\ result.status = "pass"

\* C3: an Err result is never the report of a per-signature failure: when the
\* result is Err, no header was examined and found failing.
C3_ErrOnlyForConstruction ==
    (Returned /\ result.tag = "Err") =>
        \A j \in 1..Len(log) : log[j].kind # "failed"

\* no header carries a d= equal to from_domain
NoneMatches == \A k \in 1..HdrCount : ~Matches(k)

\* C4 as stated: when no header carries a d= equal to from_domain the outcome
\* is Neutral, here for messages whose headers are all tag-lists with a d=.
C4_NeutralWhenNoneMatches ==
    (Returned /\ result.tag = "Ok" /\ NoneMatches
        /\ \A k \in 1..HdrCount :
              email.headers[k].syntax_ok /\ has_tag(TagsOf(k), "d"))
    => result = DKIMResult_neutral(from_domain)

\* C4 as amended: when no header carries a d= equal to from_domain, the
\* outcome is Neutral exactly when every header passes validate_header, and
\* otherwise Fail with the error of the last header that validate_header
\* rejects.
C4_NeutralUnlessInvalid ==
    (Returned /\ result.tag = "Ok" /\ NoneMatches) =>
        LET invalid == {k \in 1..HdrCount : ~Valid(k)}
        IN IF invalid = {} THEN result = DKIMResult_neutral(from_domain)
           ELSE result = DKIMResult_fail(ValidationError(Greatest(invalid)),
                                         from_domain)

\* C4 witness: a valid signature of another domain was skipped and the result
\* is Neutral
C4_Witness ==
    /\ Returned /\ NoneMatches /\ HdrCount >= 1
    /\ \A k \in 1..HdrCount : Valid(k)
    /\ result = DKIMResult_neutral(from_domain)

\* the position of a step in the steps of a log entry, 0 when it is absent
Position(steps, name) ==
    IF contains(steps, name) THEN CHOOSE k \in 1..Len(steps) : steps[k] = name ELSE 0

\* the body hash of the message exists for log entry e: the header is a valid
\* header of from_domain, its c= and a= parse, the key was retrieved (with a
\* resolver) and the comparison is not switched off (with a key)
BodyHashCompared(e) ==
    /\ e.kind \in {"failed", "passed"}
    /\ parse_canonicalization(TagsOf(e.hdr)).ok
    /\ parse_hash_algo(TagsOf(e.hdr)["a"]).ok
    /\ entry = "resolver" =>
          retrieve_public_key(resolver, TagsOf(e.hdr)["d"], TagsOf(e.hdr)["s"]).ok
    /\ entry = "key" => ~ignore_body_hash
BodyHashOf(e) ==
    compute_body_hash(parse_canonicalization(TagsOf(e.hdr)).bc,
                      parse_hash_algo(TagsOf(e.hdr)["a"]).algo, email.body)

\* C5: when the body-hash check is active, a signature for which the body
\* hash of the message is computed (BodyHashCompared) and whose bh= differs
\* from it is rejected with BodyHashDidNotVerify whatever its b= is: b= is
\* not decoded and verify_signature is not called; and in every examination
\* the comparison comes before the decoding of b=, which comes before
\* verify_signature.
C5_BodyHashComparedFirst ==
    \A j \in 1..Len(log) :
        /\ (BodyHashCompared(log[j]) /\ TagsOf(log[j].hdr)["bh"] # BodyHashOf(log[j]))
           => /\ log[j].err = Err("BodyHashDidNotVerify", "")
              /\ ~contains(log[j].steps, "decode_b")
              /\ ~contains(log[j].steps, "verify_signature")
        /\ (BodyHashCompared(log[j]) /\ contains(log[j].steps, "decode_b"))
           => /\ Position(log[j].steps, "compare_bh") > 0
              /\ Position(log[j].steps, "compare_bh") < Position(log[j].steps, "decode_b")
        /\ contains(log[j].steps, "verify_signature")
           => Position(log[j].steps, "decode_b") < Position(log[j].steps, "verify_signature")

\* C5 witness: a header whose bh= does not match and whose b= is not base64
\* was rejected with BodyHashDidNotVerify
C5_Witness ==
    \E j \in 1..Len(log) :
        /\ BodyHashCompared(log[j])
        /\ TagsOf(log[j].hdr)["bh"] # BodyHashOf(log[j])
        /\ ~TagsOf(log[j].hdr)["b"].base64_ok
        /\ log[j].err = Err("BodyHashDidNotVerify", "")

\* the public key verify_signature is given for header k
KeyOf(k) ==
    IF entry = "resolver"
    THEN retrieve_public_key(resolver, TagsOf(k)["d"], TagsOf(k)["s"]).key
    ELSE public_key

\* the iteration e called verify_signature
SignatureVerified(e) == contains(e.steps, "verify_signature")

\* C16: verify_signature gives SignatureSyntaxError for an Ed25519 key and a
\* decoded b= that is not 64 bytes long, UnsupportedHashAlgorithm for an RSA
\* key and an a= that is neither rsa-sha1 nor rsa-sha256, and true or false
\* otherwise, false becoming SignatureDidNotVerify in the caller.
C16_MalformedInputIsAnError ==
    \A j \in 1..Len(log) :
        SignatureVerified(log[j]) =>
            LET key == KeyOf(log[j].hdr)
                a == TagsOf(log[j].hdr)["a"]
                b == TagsOf(log[j].hdr)["b"].bytes
            IN  IF key.type = "ed25519" /\ b.len # 64
                THEN log[j].err.kind = "SignatureSyntaxError"
                ELSE IF key.type = "rsa" /\ a \notin {"rsa-sha1", "rsa-sha256"}
                THEN log[j].err.kind = "UnsupportedHashAlgorithm"
                ELSE /\ log[j].err \in {None, Err("SignatureDidNotVerify", "")}
                     /\ log[j].err = None <=> log[j].kind = "passed"

\* an Ed25519 key was given a signature of another length
C16_Witness ==
    \E j \in 1..Len(log) :
        /\ SignatureVerified(log[j])
        /\ KeyOf(log[j].hdr).type = "ed25519"
        /\ TagsOf(log[j].hdr)["b"].bytes.len # 64
        /\ log[j].err.kind = "SignatureSyntaxError"

\* the iteration e issued a DNS lookup
Lookups(e) == Cardinality({i \in 1..Len(e.steps) : e.steps[i] = "lookup"})

\* C17: verify_email_with_resolver takes the candidates one after another;
\* it issues a lookup only for a signature that passed validate_header and
\* whose d= equals from_domain, and at most one; it skips a signature of
\* another domain without a lookup and without changing last_error; it does
\* nothing more once a signature has passed.
C17_LookupOnlyForOwnDomain ==
    [][entry = "resolver" =>
        /\ result # Running => (log' = log /\ result' = result)
        /\ log' # log =>
              LET e == log'[Len(log')]
              IN  /\ log' = Append(log, e)
                  /\ e.hdr = Len(log')
                  /\ Lookups(e) <= 1
                  /\ Lookups(e) = 1 => (Valid(e.hdr) /\ Matches(e.hdr))
                  /\ (Valid(e.hdr) /\ ~Matches(e.hdr)) =>
                        (Lookups(e) = 0 /\ e.kind = "skipped"
                         /\ last_error' = last_error /\ result' = Running)
                  /\ e.kind = "passed" => result'.status = "pass"]_vars

\* a signature of another domain was skipped after one of the sender's
\* domain had failed with a lookup, and the recorded error is still there
C17_Witness ==
    /\ entry = "resolver" /\ Len(log) = 2
    /\ Lookups(log[1]) = 1 /\ log[1].kind = "failed"
    /\ log[2].kind = "skipped" /\ Lookups(log[2]) = 0
    /\ last_error = log[1].err /\ last_error # None

\* C18: a signature passes only when the variant of the public key is the
\* algorithm family of a=: never with an Ed25519 key and a=rsa-sha1 or
\* a=rsa-sha256, never with an RSA key and a=ed25519-sha256.
C18_KeyVariantMatchesAlgorithm ==
    \A j \in 1..Len(log) :
        log[j].kind = "passed" =>
            LET key == KeyOf(log[j].hdr)
                a == TagsOf(log[j].hdr)["a"]
            IN  /\ key.type = "ed25519" => a \notin {"rsa-sha1", "rsa-sha256"}
                /\ key.type = "rsa" => a # "ed25519-sha256"

(***************************************************************************)
(* SpecLines: one signed message received in two forms that differ only    *)
(* in their line endings, given to each entry point.                       *)
(***************************************************************************)
\* lib.rs 718-720: .replace("\r\n", "\n").replace("\n", "\r\n")
normalized_bytes(m) == replace_slice(replace_slice(m, CRLF, <<LF>>), <<LF>>, CRLF)

\* the lines of a message: a line ends at a CRLF or at an LF without CR
RECURSIVE lines_of(_, _)
lines_of(m, line) ==
    IF m = <<>> THEN <<line>>
    ELSE IF starts_with(m, CRLF) THEN <<line>> \o lines_of(SubSeq(m, 3, Len(m)), <<>>)
    ELSE IF Head(m) = LF THEN <<line>> \o lines_of(Tail(m), <<>>)
    ELSE lines_of(Tail(m), Append(line, Head(m)))

RawBytes == {CR, LF, "x"}

\* the message whose signed header bytes are m, carrying one signature that
\* the signer made over the form sent
Signed(sent) == Header(sign(BaseTags, KeyRsa, "body", sent))
Received(sent, m) == [headers |-> <<Signed(sent)>>, body |-> "body", signed |-> m]

\* lib.rs 296-344 for a message with one signature: no normalization
resolver_verdict(sent, m) ==
    LET o == verify_email_header(Zone, Signed(sent).tags, Received(sent, m))
    IN  IF o.err = None THEN DKIMResult_pass(STR_example_net, o.hc, o.bc)
        ELSE after_loop(o.err, STR_example_net)

\* lib.rs 711-795 for a message with one signature: the bytes are normalized
\* and parsed again before the loop
key_verdict(sent, m) ==
    LET o == verify_with_key(KeyRsa, FALSE, Signed(sent).tags,
                             Received(sent, normalized_bytes(m)))
    IN  IF o.err = None THEN DKIMResult_pass(STR_example_net, o.hc, o.bc)
        ELSE ReturnErr(o.err)

InitLines ==
    /\ messages \in {p \in [a : SeqsUpTo(RawBytes, MaxRaw), b : SeqsUpTo(RawBytes, MaxRaw)] :
                        lines_of(p.a, <<>>) = lines_of(p.b, <<>>)}
    /\ verdicts = LinesPending
    /\ clock = StartTime /\ dkim_expiration_check = FALSE
    /\ ValidateIdle /\ BodyIdle /\ VerifyIdle /\ HeaderIdle

LinesWithResolver ==
    /\ verdicts = LinesPending
    /\ verdicts' = [entry |-> "resolver",
                    a |-> resolver_verdict(messages.a, messages.a),
                    b |-> resolver_verdict(messages.a, messages.b),
                    hashed_a |-> messages.a, hashed_b |-> messages.b]
    /\ UNCHANGED <<messages, validate_vars, body_vars, clock, dkim_expiration_check,
                   verify_vars, header_vars>>

LinesWithKey ==
    /\ verdicts = LinesPending
    /\ verdicts' = [entry |-> "key",
                    a |-> key_verdict(messages.a, messages.a),
                    b |-> key_verdict(messages.a, messages.b),
                    hashed_a |-> normalized_bytes(messages.a),
                    hashed_b |-> normalized_bytes(messages.b)]
    /\ UNCHANGED <<messages, validate_vars, body_vars, clock, dkim_expiration_check,
                   verify_vars, header_vars>>

NextLines == LinesWithResolver \/ LinesWithKey

SpecLines == InitLines /\ [][NextLines]_vars

no_bare_lf(m) == \A k \in 1..Len(m) : m[k] = LF => (k > 1 /\ m[k - 1] = CR)

\* C15: two messages that differ only in bare LF versus CRLF line endings
\* get the same result from verify_email_with_key and from
\* verify_email_with_resolver; the normalization leaves no LF without a CR
\* before it, is idempotent and maps both messages to the same bytes.
C15_LineEndingTolerance ==
    /\ verdicts.entry # "none" => verdicts.a = verdicts.b
    /\ verdicts.entry = "key" =>
          /\ no_bare_lf(verdicts.hashed_a) /\ no_bare_lf(verdicts.hashed_b)
          /\ normalized_bytes(verdicts.hashed_a) = verdicts.hashed_a
          /\ normalized_bytes(verdicts.hashed_b) = verdicts.hashed_b
          /\ verdicts.hashed_a = verdicts.hashed_b
====
